---- MODULE Spec2Model ----
(***************************************************************************)
(* A model of ppm-parser (src/src/parsePPM.ts): the three decode entry     *)
(* points parsePPM, parsePPMP6 and parsePPMP3, the PPMImage they return    *)
(* and its getPixel accessor.                                              *)
(*                                                                         *)
(* A buffer is a sequence of bytes (0..255).  A string is a sequence of    *)
(* UTF-16 code units, as in JavaScript; string positions are 0-based in    *)
(* the source and 1-based here, and every place that converts says so.     *)
(***************************************************************************)
EXTENDS Integers, Sequences, FiniteSets, TLC

Min(a, b) == IF a < b THEN a ELSE b

(***************************************************************************)
(* JavaScript runtime functions the source calls.                          *)
(***************************************************************************)

\* The characters the regular expression class \s matches.
IsWhiteSpace(c) ==
    \/ c \in {9, 10, 11, 12, 13, 32, 160, 5760, 8232, 8233, 8239, 8287, 12288, 65279}
    \/ (c >= 8192 /\ c <= 8202)

\* new TextDecoder().decode(bytes) from byte i on: UTF-8, an ill-formed
\* sequence becomes one U+FFFD for its maximal well-formed part, a code
\* point above U+FFFF becomes a surrogate pair.
RECURSIVE Utf8From(_, _)
Utf8From(bytes, i) ==
    IF i > Len(bytes) THEN <<>>
    ELSE
      LET b == bytes[i]
          need == IF b < 128 THEN 0
                  ELSE IF b >= 194 /\ b <= 223 THEN 1
                  ELSE IF b >= 224 /\ b <= 239 THEN 2
                  ELSE IF b >= 240 /\ b <= 244 THEN 3
                  ELSE -1
          lo1 == IF b = 224 THEN 160 ELSE IF b = 240 THEN 144 ELSE 128
          hi1 == IF b = 237 THEN 159 ELSE IF b = 244 THEN 143 ELSE 191
          ok(k) == /\ i + k <= Len(bytes)
                   /\ IF k = 1 THEN bytes[i + 1] >= lo1 /\ bytes[i + 1] <= hi1
                               ELSE bytes[i + k] >= 128 /\ bytes[i + k] <= 191
          got == IF need >= 1 /\ ok(1)
                 THEN IF need >= 2 /\ ok(2)
                      THEN IF need >= 3 /\ ok(3) THEN 3 ELSE 2
                      ELSE 1
                 ELSE 0
          cp == IF need = 1 THEN (b - 192) * 64 + (bytes[i + 1] - 128)
                ELSE IF need = 2
                THEN (b - 224) * 4096 + (bytes[i + 1] - 128) * 64 + (bytes[i + 2] - 128)
                ELSE (b - 240) * 262144 + (bytes[i + 1] - 128) * 4096
                     + (bytes[i + 2] - 128) * 64 + (bytes[i + 3] - 128)
      IN IF need = 0 THEN <<b>> \o Utf8From(bytes, i + 1)
         ELSE IF need = -1 THEN <<65533>> \o Utf8From(bytes, i + 1)
         ELSE IF got < need THEN <<65533>> \o Utf8From(bytes, i + 1 + got)
         ELSE IF cp > 65535
         THEN <<55296 + ((cp - 65536) \div 1024), 56320 + ((cp - 65536) % 1024)>>
              \o Utf8From(bytes, i + 4)
         ELSE <<cp>> \o Utf8From(bytes, i + 1 + need)

\* new TextDecoder().decode(bytes): a leading byte order mark is dropped.
TextDecode(bytes) ==
    LET s == Utf8From(bytes, 1)
    IN IF Len(s) > 0 /\ s[1] = 65279 THEN Tail(s) ELSE s

\* data.subarray(begin, end) with 0 <= begin: the bytes at 0-based
\* positions begin .. end-1, both clamped to the length.
Subarray(data, begin, end) ==
    SubSeq(data, Min(begin, Len(data)) + 1, Min(end, Len(data)))

\* s.split(/\s+/): the pieces between maximal runs of white space; a run at
\* the start or the end leaves an empty piece there, "" gives [""].
RECURSIVE SkipWhiteSpace(_, _)
SkipWhiteSpace(s, i) ==
    IF i <= Len(s) /\ IsWhiteSpace(s[i]) THEN SkipWhiteSpace(s, i + 1) ELSE i

RECURSIVE SplitFrom(_, _, _)
SplitFrom(s, i, cur) ==
    IF i > Len(s) THEN <<cur>>
    ELSE IF IsWhiteSpace(s[i]) THEN <<cur>> \o SplitFrom(s, SkipWhiteSpace(s, i), <<>>)
    ELSE SplitFrom(s, i + 1, Append(cur, s[i]))

Split(s) == SplitFrom(s, 1, <<>>)

\* lines.join('\n')
RECURSIVE Join(_)
Join(lines) ==
    IF Len(lines) = 0 THEN <<>>
    ELSE IF Len(lines) = 1 THEN lines[1]
    ELSE lines[1] \o <<10>> \o Join(Tail(lines))

\* lines.slice(n)
Slice(lines, n) == SubSeq(lines, n + 1, Len(lines))

\* s.indexOf(pat): the 0-based position of the first occurrence, -1 if none.
RECURSIVE IndexOfFrom(_, _, _)
IndexOfFrom(s, pat, i) ==
    IF i + Len(pat) - 1 > Len(s) THEN -1
    ELSE IF SubSeq(s, i, i + Len(pat) - 1) = pat THEN i - 1
    ELSE IndexOfFrom(s, pat, i + 1)

IndexOf(s, pat) == IndexOfFrom(s, pat, 1)

\* The value of a digit character in the given radix, -1 if it is none.
DigitValue(c, radix) ==
    LET v == IF c >= 48 /\ c <= 57 THEN c - 48
             ELSE IF c >= 97 /\ c <= 122 THEN c - 97 + 10
             ELSE IF c >= 65 /\ c <= 90 THEN c - 65 + 10
             ELSE -1
    IN IF v >= 0 /\ v < radix THEN v ELSE -1

\* The length of the longest prefix of s[i..] made of digits of the radix.
RECURSIVE DigitRun(_, _, _)
DigitRun(s, i, radix) ==
    IF i <= Len(s) /\ DigitValue(s[i], radix) >= 0 THEN 1 + DigitRun(s, i + 1, radix) ELSE 0

\* The number written by the n digits of s from position i on.
RECURSIVE DigitsValue(_, _, _, _)
DigitsValue(s, i, n, radix) ==
    IF n = 0 THEN 0
    ELSE DigitsValue(s, i, n - 1, radix) * radix + DigitValue(s[i + n - 1], radix)

\* A JavaScript number, as far as the source tells numbers apart: a finite
\* value cut to its integer part (the only consumers compare with an integer
\* or convert to Uint8, which cuts the fraction too; frac records that one
\* was cut), or a value that is not finite (NaN, +-Infinity).
Finite(v) == [finite |-> TRUE, val |-> v, frac |-> FALSE]
Fraction(v) == [finite |-> TRUE, val |-> v, frac |-> TRUE]
NaN == [finite |-> FALSE, val |-> 0, frac |-> FALSE]

IsSign(c) == c = 43 \/ c = 45
SignOf(s, i) == IF i <= Len(s) /\ s[i] = 45 THEN -1 ELSE 1

\* The number written by the longest run of digits of the radix from
\* position q on, with the sign; NaN if the run is empty.
RadixValue(s, sign, q, radix) ==
    IF DigitRun(s, q, radix) = 0 THEN NaN
    ELSE Finite(sign * DigitsValue(s, q, DigitRun(s, q, radix), radix))

\* parseInt from position p on, after the white space and the sign: an
\* optional 0x/0X chooses base 16.
ParseDigits(s, sign, p) ==
    IF p + 1 <= Len(s) /\ s[p] = 48 /\ s[p + 1] \in {88, 120}
    THEN RadixValue(s, sign, p + 2, 16)
    ELSE RadixValue(s, sign, p, 10)

ParseSigned(s, start) ==
    ParseDigits(s, SignOf(s, start),
                IF start <= Len(s) /\ IsSign(s[start]) THEN start + 1 ELSE start)

\* parseInt(s) with no radix argument: leading white space, a sign, an
\* optional 0x/0X for base 16, then the longest run of digits; NaN if that
\* run is empty.  What follows the run is ignored.
ParseInt(s) == ParseSigned(s, SkipWhiteSpace(s, 1))

RECURSIVE Pow10(_)
Pow10(n) == IF n = 0 THEN 1 ELSE 10 * Pow10(n - 1)

\* The value mant * 10^shift of a decimal literal, cut to its integer part.
Scaled(sign, mant, shift) ==
    IF shift >= 0 THEN Finite(sign * mant * Pow10(shift))
    ELSE IF mant % Pow10(-shift) = 0 THEN Finite(sign * (mant \div Pow10(-shift)))
    ELSE Fraction(sign * (mant \div Pow10(-shift)))

\* The exponent part of a decimal literal, from position e on (the
\* character after the mantissa): absent, or e/E, an optional sign and
\* digits to the end of the string.
WithExponent(s, sign, mant, fracLen, e, expAt) ==
    IF e = Len(s) + 1 THEN Scaled(sign, mant, -fracLen)
    ELSE IF s[e] \notin {69, 101} THEN NaN
    ELSE IF DigitRun(s, expAt, 10) = 0 \/ expAt + DigitRun(s, expAt, 10) # Len(s) + 1
    THEN NaN
    ELSE Scaled(sign, mant,
                SignOf(s, e + 1) * DigitsValue(s, expAt, Len(s) + 1 - expAt, 10)
                - fracLen)

\* A decimal literal whose mantissa has intLen digits from position p on
\* and, after a point, fracLen more; one digit at least.
WithMantissa(s, sign, p, intLen, dot, fracLen) ==
    IF intLen + fracLen = 0 THEN NaN
    ELSE WithExponent(s, sign,
                      DigitsValue(s, p, intLen, 10) * Pow10(fracLen)
                      + DigitsValue(s, p + intLen + 1, fracLen, 10),
                      fracLen,
                      p + intLen + dot + fracLen,
                      IF /\ p + intLen + dot + fracLen + 1 <= Len(s)
                         /\ IsSign(s[p + intLen + dot + fracLen + 1])
                      THEN p + intLen + dot + fracLen + 2
                      ELSE p + intLen + dot + fracLen + 1)

WithInteger(s, sign, p, intLen) ==
    IF p + intLen <= Len(s) /\ s[p + intLen] = 46
    THEN WithMantissa(s, sign, p, intLen, 1, DigitRun(s, p + intLen + 1, 10))
    ELSE WithMantissa(s, sign, p, intLen, 0, 0)

\* A decimal literal from position p on, after the sign.
DecimalLiteral(s, sign, p) ==
    IF SubSeq(s, p, Len(s)) = <<73, 110, 102, 105, 110, 105, 116, 121>> THEN NaN
    ELSE WithInteger(s, sign, p, DigitRun(s, p, 10))

\* An unsigned literal 0x.., 0o.. or 0b..: digits of the radix to the end.
RadixLiteral(s, radix) ==
    IF DigitRun(s, 3, radix) = Len(s) - 2 THEN Finite(DigitsValue(s, 3, Len(s) - 2, radix))
    ELSE NaN

\* Number(s) of a string without white space (StringToNumber): "" is 0; a
\* decimal literal with optional sign, fraction and exponent; Infinity
\* (not finite, as NaN); an unsigned 0x, 0o or 0b literal; anything else
\* is NaN.
ToNumber(s) ==
    IF Len(s) = 0 THEN Finite(0)
    ELSE IF Len(s) >= 3 /\ s[1] = 48 /\ s[2] \in {88, 120}
    THEN RadixLiteral(s, 16)
    ELSE IF Len(s) >= 3 /\ s[1] = 48 /\ s[2] \in {79, 111} THEN RadixLiteral(s, 8)
    ELSE IF Len(s) >= 3 /\ s[1] = 48 /\ s[2] \in {66, 98} THEN RadixLiteral(s, 2)
    ELSE DecimalLiteral(s, SignOf(s, 1), IF IsSign(s[1]) THEN 2 ELSE 1)

\* The conversion of a Uint8ClampedArray instead: values outside 0..255 are
\* clamped to the nearest bound, not wrapped.
ToUint8Clamped(num) ==
    IF ~num.finite \/ num.val < 0 THEN 0 ELSE Min(255, num.val)

\* The conversion new Uint8Array(numbers) applies to each element (ToUint8):
\* a value that is not finite becomes 0, a finite one is cut to an integer
\* and taken modulo 256.
ToUint8(num) == IF num.finite THEN num.val % 256 ELSE 0

(***************************************************************************)
(* parsePPM.ts                                                             *)
(***************************************************************************)

\* The string literals of the source.
StrP6 == <<80, 54>>
StrP3 == <<80, 51>>
Str255 == <<50, 53, 53>>

\* The three messages the source throws, as error kinds.
ErrDepth == "UnsupportedColorDepth"
ErrFormat == "UnsupportedFormat"
ErrSize == "PixelDataSizeMismatch"

\* pixelData is a typed array: a view of len bytes at byte offset off of
\* the decoded buffer when shared, else storage of its own.
SharedView(off, len) == [shared |-> TRUE, off |-> off, len |-> len, own |-> <<>>]
OwnArray(bytes) == [shared |-> FALSE, off |-> 0, len |-> Len(bytes), own |-> bytes]

\* The elements a typed array holds while the decoded buffer holds buf.
Elements(pixelData, buf) ==
    IF pixelData.shared
    THEN SubSeq(buf, pixelData.off + 1, pixelData.off + pixelData.len)
    ELSE pixelData.own

PPMImage(width, height, pixelData, maxColorValue, format) ==
    [width |-> width, height |-> height, pixelData |-> pixelData,
     maxColorValue |-> maxColorValue, format |-> format]

NoImage == PPMImage(0, 0, OwnArray(<<>>), 0, "none")

Returned(image) == [kind |-> "image", image |-> image]
Thrown(kind) == [kind |-> kind, image |-> NoImage]

\* The index with rows taken height elements long instead of width.
PixelIndexByHeight(image, x, y) == (y * image.height + x) * 3

\* index = (y * this.width + x) * 3
PixelIndex(image, x, y) == (y * image.width + x) * 3

\* A read of a typed array at a 0-based index: undefined outside it.
Undefined == -1
ReadAt(elems, index) ==
    IF index >= 0 /\ index < Len(elems) THEN elems[index + 1] ELSE Undefined

\* image.getPixel(x, y) while the decoded buffer holds buf.
getPixel(image, buf, x, y) ==
    LET index == PixelIndex(image, x, y)
        elems == Elements(image.pixelData, buf)
    IN [r |-> ReadAt(elems, index), g |-> ReadAt(elems, index + 1),
        b |-> ReadAt(elems, index + 2)]

\* maxColorValue !== '255' is false; a missing fourth token is undefined.
DepthSupported(headerLines) == Len(headerLines) >= 4 /\ headerLines[4] = Str255

parseHeaderAttributes(headerLines) ==
    IF ~DepthSupported(headerLines)
    THEN [thrown |-> TRUE, format |-> <<>>, width |-> NaN, height |-> NaN,
          maxColorValue |-> NaN]
    ELSE [thrown |-> FALSE, format |-> headerLines[1],
          width |-> ParseInt(headerLines[2]), height |-> ParseInt(headerLines[3]),
          maxColorValue |-> ParseInt(headerLines[4])]

\* The size check with the three channels per pixel left out.
SizeMatchesPixels(length, width, height) ==
    width.finite /\ height.finite /\ length = width.val * height.val

\* length !== width * height * 3 is false: NaN equals nothing.
SizeMatches(length, width, height) ==
    width.finite /\ height.finite /\ length = width.val * height.val * 3

\* headerLength = header.indexOf('255') + 4
HeaderLength(header) == IndexOf(header, Str255) + 4

\* data.subarray(headerLength): a view to the end of the buffer.
P6PixelData(data, headerLength) ==
    SharedView(Min(headerLength, Len(data)), Len(data) - Min(headerLength, Len(data)))

\* parsePPMP6 after the header attributes and the view of the payload are
\* known: the checks of the format and of the size, and the result.
CheckP6(attrs, pixelData) ==
    IF attrs.thrown THEN Thrown(ErrDepth)
    ELSE IF attrs.format # StrP6 THEN Thrown(ErrFormat)
    ELSE IF ~SizeMatches(pixelData.len, attrs.width, attrs.height) THEN Thrown(ErrSize)
    ELSE Returned(PPMImage(attrs.width.val, attrs.height.val, pixelData,
                           attrs.maxColorValue.val, "P6"))

\* parsePPMP6 after header, the text of the first 20 bytes, is decoded.
ExtractP6(data, header) ==
    CheckP6(parseHeaderAttributes(Split(header)),
            P6PixelData(data, HeaderLength(header)))

\* parsePPMP6 with the format check moved before the depth check.
parsePPMP6FormatFirst(data) ==
    IF Split(TextDecode(Subarray(data, 0, 20)))[1] # StrP6 THEN Thrown(ErrFormat)
    ELSE ExtractP6(data, TextDecode(Subarray(data, 0, 20)))

parsePPMP6(data) == ExtractP6(data, TextDecode(Subarray(data, 0, 20)))

\* The pixel tokens taken from the fourth header token on instead of after it.
PixelTokensFromDepth(headerLines) == Split(Join(Slice(headerLines, 3)))

\* headerLines.slice(4).join('\n').split(/\s+/)
PixelTokens(headerLines) == Split(Join(Slice(headerLines, 4)))

\* The pixel values as a view of the first bytes of the decoded buffer
\* instead of a new array.
P3PixelDataShared(data, tokens) == SharedView(0, Min(Len(tokens), Len(data)))

\* new Uint8Array(tokens.map(Number)): storage of its own.
P3PixelData(data, tokens) ==
    OwnArray([i \in 1..Len(tokens) |-> ToUint8(ToNumber(tokens[i]))])

\* parsePPMP3 after the header attributes and the pixel tokens are known.
CheckP3(data, attrs, parsedValues) ==
    IF attrs.thrown THEN Thrown(ErrDepth)
    ELSE IF attrs.format # StrP3 THEN Thrown(ErrFormat)
    ELSE IF ~SizeMatches(Len(parsedValues), attrs.width, attrs.height) THEN Thrown(ErrSize)
    ELSE Returned(PPMImage(attrs.width.val, attrs.height.val,
                           P3PixelData(data, parsedValues),
                           attrs.maxColorValue.val, "P3"))

\* parsePPMP3 after the text is split.
ExtractP3(data, headerLines) ==
    CheckP3(data, parseHeaderAttributes(headerLines), PixelTokens(headerLines))

parsePPMP3(data) == ExtractP3(data, Split(TextDecode(data)))

\* The format tag parsePPM switches on.
FormatTag(data) == Split(TextDecode(Subarray(data, 0, 20)))[1]

\* parsePPM with the binary decoder as the default branch of the switch.
parsePPMDefaultP6(data) ==
    IF FormatTag(data) = StrP3 THEN parsePPMP3(data) ELSE parsePPMP6(data)

parsePPM(data) ==
    IF FormatTag(data) = StrP6 THEN parsePPMP6(data)
    ELSE IF FormatTag(data) = StrP3 THEN parsePPMP3(data)
    ELSE Thrown(ErrFormat)

EntryPoints == {"parsePPM", "parsePPMP6", "parsePPMP3"}

Parse(entry, data) ==
    IF entry = "parsePPM" THEN parsePPM(data)
    ELSE IF entry = "parsePPMP6" THEN parsePPMP6(data)
    ELSE parsePPMP3(data)

(***************************************************************************)
(* Input buffers.  The bounds of the model.                                *)
(***************************************************************************)

\* Well-formed images are MaxDim x MaxDim at most.
MaxDim == 2
\* The caller writes to the buffer at most MaxWrites times.
MaxWrites == 1

\* The decimal text of a natural number.
RECURSIVE Decimal(_)
Decimal(n) == IF n < 10 THEN <<48 + n>> ELSE Decimal(n \div 10) \o <<48 + (n % 10)>>

\* n elements that repeat the pattern pat.
Cycle(n, pat) == [i \in 1..n |-> pat[((i - 1) % Len(pat)) + 1]]

\* Payload bytes: zeros, 255s, the text "255 ", white space, a run of
\* distinct values, bytes above 127 (one of them a two-byte character).
BytePatterns ==
    {<<0>>, <<255>>, <<50, 53, 53, 32>>, <<10, 32, 9>>, <<1, 2, 3, 4, 5, 6, 7>>,
     <<200, 195, 169>>}

\* Pixel values of a P3 text.
ValuePatterns == {<<0>>, <<255>>, <<7, 42, 100, 200>>, <<9, 10, 11, 12, 13>>}

\* "P6 W H 255", one white space byte, then the bytes B.
EncodeP6(W, H, sep, last, B) ==
    StrP6 \o <<sep>> \o Decimal(W) \o <<sep>> \o Decimal(H) \o <<sep>> \o Str255
    \o <<last>> \o B

RECURSIVE EncodeValues(_, _)
EncodeValues(sep, values) ==
    IF Len(values) = 0 THEN <<>>
    ELSE sep \o Decimal(values[1]) \o EncodeValues(sep, Tail(values))

\* "P3 W H 255" and the values in decimal, each after the white space sep.
EncodeP3(W, H, sep, values) ==
    StrP3 \o sep \o Decimal(W) \o sep \o Decimal(H) \o sep \o Str255
    \o EncodeValues(sep, values)

Dims == 1..MaxDim

P6Cases(dims) ==
    {[width |-> wh[1], height |-> wh[2], payload |-> Cycle(wh[1] * wh[2] * 3, pat),
      buffer |-> EncodeP6(wh[1], wh[2], sep, last, Cycle(wh[1] * wh[2] * 3, pat))] :
        wh \in dims, sep \in {32, 10}, last \in {10, 32}, pat \in BytePatterns}

P3Cases ==
    {[width |-> W, height |-> H, values |-> Cycle(W * H * 3, pat),
      buffer |-> EncodeP3(W, H, sep, Cycle(W * H * 3, pat))] :
        W \in Dims, H \in Dims, sep \in {<<32>>, <<10>>, <<32, 10>>},
        pat \in ValuePatterns}

SmallP6Cases == P6Cases(Dims \X Dims)
\* Images one of whose dimensions is written "255".
WideP6Cases == P6Cases({<<255, 1>>, <<1, 255>>})

\* Header tokens of malformed and unusual files.
TagTokens == {StrP6, StrP3, <<80, 53>>, <<>>}
DepthTokens == {Str255, <<54, 53, 53, 51, 53>>, <<48, 50, 53, 53>>, <<50, 53>>}
DimTokens == {<<49>>, <<50>>, <<48>>, <<45, 49>>, <<120>>}

\* What follows the header: nothing, a separator, three bytes, three values.
Tails ==
    {<<>>, <<10>>, <<10, 97, 98, 99>>, <<32, 49, 32, 50, 32, 51>>,
     <<32, 49, 32, 50, 32, 51, 10>>, <<10, 97>>}

DepthInputs ==
    {Join(<<tag, <<49>>, <<49>>, depth>>) \o tail :
        tag \in TagTokens, depth \in DepthTokens, tail \in Tails}

ShortInputs ==
    {Join(SubSeq(<<tag, <<49>>, <<49>>>>, 1, k)) : tag \in {StrP6, StrP3}, k \in 0..3}

DimInputs ==
    {Join(<<tag, w, h, Str255>>) \o tail :
        tag \in {StrP6, StrP3}, w \in DimTokens, h \in DimTokens, tail \in Tails}

\* Value tokens outside 0..255, with a fraction or an exponent, not numeric.
ValueTokens ==
    << <<50, 53, 54>>, <<51, 48, 48>>, <<45, 49>>, <<97, 98, 99>>, <<49, 46, 53>>,
       <<49, 101, 50>>, <<48, 120, 49, 48>>, <<49, 50, 97>>, <<43, 55>>,
       <<45, 50, 53, 54>>, <<53, 49, 49>>, <<45, 49, 46, 53>>, <<50, 53, 53>>,
       <<73, 110, 102, 105, 110, 105, 116, 121>>, <<45>> >>

CoercionInputs ==
    {Join(<<StrP3, <<49>>, <<49>>, Str255, ValueTokens[i],
            ValueTokens[(i % Len(ValueTokens)) + 1],
            ValueTokens[((i + 1) % Len(ValueTokens)) + 1]>>) :
        i \in 1..Len(ValueTokens)}

\* Headers in which "255" occurs before the depth token, or in which a
\* byte order mark or a two-byte character shifts text against bytes.
OffsetInputs ==
    {<<80, 54, 32, 49, 120, 50, 53, 53, 32, 50, 32, 32, 50, 53, 53>>,
     <<80, 54, 32, 49, 46, 50, 53, 53, 32, 50, 32, 32, 50, 53, 53, 10>>,
     <<239, 187, 191, 80, 54, 32, 49, 195, 169, 32, 49, 32, 50, 53, 53>>,
     <<239, 187, 191, 80, 54, 32, 49, 32, 49, 32, 50, 53, 53, 10, 97, 98, 99>>,
     <<239, 187, 191, 80, 51, 32, 49, 32, 49, 32, 50, 53, 53, 32, 49, 32, 50, 32, 51>>,
     <<80, 54, 32, 49, 195, 169, 32, 49, 32, 50, 53, 53, 10, 97, 98>>}

Inputs ==
    {c.buffer : c \in SmallP6Cases} \cup {c.buffer : c \in P3Cases}
    \cup DepthInputs \cup ShortInputs \cup DimInputs \cup CoercionInputs
    \cup OffsetInputs

\* The bytes the caller writes.
WriteValues == {0, 32}

(***************************************************************************)
(* The state: one buffer the caller owns, the outcome of the latest decode *)
(* call, the first image a decode call returned (the caller keeps it) and  *)
(* the triple the latest getPixel call returned.                           *)
(***************************************************************************)
VARIABLES data, call, outcome, held, snapshot, pixel, writes

vars == <<data, call, outcome, held, snapshot, pixel, writes>>

NoPixel == [read |-> FALSE, x |-> 0, y |-> 0, r |-> Undefined, g |-> Undefined,
            b |-> Undefined]

InitWith(inputs) ==
    /\ data \in inputs
    /\ call = [entry |-> "none", input |-> <<>>]
    /\ outcome = [kind |-> "none", image |-> NoImage]
    /\ held = [has |-> FALSE, image |-> NoImage]
    /\ snapshot = <<>>
    /\ pixel = NoPixel
    /\ writes = 0

Init == InitWith(Inputs)

\* The end of a call that gives result: the caller keeps the image if it
\* keeps none yet, and snapshot records the elements of that image as they
\* are when the call returns.
Return(entry, result) ==
    /\ call' = [entry |-> entry, input |-> data]
    /\ outcome' = result
    /\ IF ~held.has /\ result.kind = "image"
       THEN /\ held' = [has |-> TRUE, image |-> result.image]
            /\ snapshot' = Elements(result.image.pixelData, data)
       ELSE UNCHANGED <<held, snapshot>>
    /\ pixel' = NoPixel
    /\ UNCHANGED <<data, writes>>

\* A call of an entry point on the buffer.
Decode(entry) == Return(entry, Parse(entry, data))

\* The caller stores a byte in the buffer.
CallerWrite(i, v) ==
    /\ writes < MaxWrites
    /\ i \in 1..Len(data)
    /\ data[i] # v
    /\ data' = [data EXCEPT ![i] = v]
    /\ writes' = writes + 1
    /\ pixel' = NoPixel
    /\ UNCHANGED <<call, outcome, held, snapshot>>

\* The caller reads a pixel of the image it keeps.
GetPixel(x, y) ==
    /\ held.has
    /\ pixel' = [read |-> TRUE, x |-> x, y |-> y] @@ getPixel(held.image, data, x, y)
    /\ UNCHANGED <<data, call, outcome, held, snapshot, writes>>

Coords == 0..MaxDim

\* Decoding and reading pixels, on every input of the model.
Next ==
    \/ \E entry \in EntryPoints : Decode(entry)
    \/ \E x \in Coords, y \in Coords : GetPixel(x, y)

Spec == Init /\ [][Next]_vars

\* The entry points that decode a binary file, on well-formed binary files
\* that include images 255 wide or high.
InitP6 == InitWith({c.buffer : c \in SmallP6Cases \cup WideP6Cases})

NextP6 ==
    \/ \E entry \in {"parsePPM", "parsePPMP6"} : Decode(entry)
    \/ \E x \in Coords, y \in Coords : GetPixel(x, y)

SpecP6 == InitP6 /\ [][NextP6]_vars

\* Decoding interleaved with caller writes to the buffer, on one-pixel
\* images of both formats.
AliasInputs ==
    {EncodeP6(1, 1, 32, 10, Cycle(3, pat)) : pat \in BytePatterns}
    \cup {EncodeP3(1, 1, <<32>>, Cycle(3, pat)) : pat \in ValuePatterns}

InitAlias == InitWith(AliasInputs)

NextAlias ==
    \/ \E entry \in EntryPoints : Decode(entry)
    \/ \E i \in 1..Len(data), v \in WriteValues : CallerWrite(i, v)

SpecAlias == InitAlias /\ [][NextAlias]_vars

(***************************************************************************)
(* Properties.  In Spec and SpecP6 the buffer is never written, so the     *)
(* input of the latest call, call.input, is the buffer itself.             *)
(***************************************************************************)

Called(entries) == call.entry \in entries

\* The elements of the image the latest call returned.
ReturnedElements == Elements(outcome.image.pixelData, data)

\* The tokens of the text an entry point splits: of the first 20 bytes, or
\* of the whole buffer.
PrefixTokens(input) == Split(TextDecode(Subarray(input, 0, 20)))
TextTokens(input) == Split(TextDecode(input))

\* C1: decoding "P6 W H 255", one white space byte and W*H*3 bytes B through
\* parsePPM or parsePPMP6 returns the image W x H of depth 255 and format P6
\* whose pixelData is B, for every W >= 1 and H >= 1.
C1_P6RoundTrip ==
    \A c \in SmallP6Cases \cup WideP6Cases :
        (Called({"parsePPM", "parsePPMP6"}) /\ call.input = c.buffer)
        => /\ outcome.kind = "image"
           /\ outcome.image.width = c.width
           /\ outcome.image.height = c.height
           /\ outcome.image.maxColorValue = 255
           /\ outcome.image.format = "P6"
           /\ ReturnedElements = c.payload

\* C2: decoding "P3 W H 255" followed by W*H*3 decimal values in 0..255
\* separated by white space, through parsePPM or parsePPMP3, returns the
\* image W x H of depth 255 and format P3 whose pixelData holds the values.
C2_P3RoundTrip ==
    \A c \in P3Cases :
        (Called({"parsePPM", "parsePPMP3"}) /\ call.input = c.buffer)
        => /\ outcome.kind = "image"
           /\ outcome.image.width = c.width
           /\ outcome.image.height = c.height
           /\ outcome.image.maxColorValue = 255
           /\ outcome.image.format = "P3"
           /\ ReturnedElements = c.values

\* A text image of the largest size of the model, with separators that are
\* runs of two white space characters, was decoded by parsePPM.
C2_Witness ==
    \E c \in P3Cases :
        /\ c.width = MaxDim /\ c.height = MaxDim
        /\ c.values = Cycle(MaxDim * MaxDim * 3, <<7, 42, 100, 200>>)
        /\ c.buffer = EncodeP3(MaxDim, MaxDim, <<32, 10>>, c.values)
        /\ call = [entry |-> "parsePPM", input |-> c.buffer]
        /\ outcome.kind = "image"

\* C3: every image a decode call returns has width * height * 3 elements
\* of pixelData, whatever the buffer.
C3_PixelDataLength ==
    outcome.kind = "image"
    => /\ outcome.image.pixelData.len = outcome.image.width * outcome.image.height * 3
       /\ Len(ReturnedElements) = outcome.image.width * outcome.image.height * 3

\* An image with negative width and height was returned.
C3_Witness ==
    /\ outcome.kind = "image"
    /\ outcome.image.width < 0
    /\ outcome.image.height < 0
    /\ Len(ReturnedElements) = 3

\* The fourth header token is missing or is not "255".
DepthTokenIsNot255(tokens) == Len(tokens) < 4 \/ tokens[4] # <<50, 53, 53>>

\* The header tokens of the latest call: parsePPMP3, and parsePPM on the tag
\* P3, split the whole text, the others its first 20 bytes.
CallTokens ==
    IF \/ Called({"parsePPMP3"})
       \/ (Called({"parsePPM"}) /\ PrefixTokens(call.input)[1] = <<80, 51>>)
    THEN TextTokens(call.input)
    ELSE PrefixTokens(call.input)

\* C4, as stated: a buffer whose fourth header token is not "255" fails with
\* UnsupportedColorDepth whatever its format tag, through every entry point.
C4_DepthRejectedEverywhere ==
    (Called(EntryPoints) /\ DepthTokenIsNot255(CallTokens))
    => outcome.kind = "UnsupportedColorDepth"

\* C4, amended: it fails with UnsupportedColorDepth through parsePPMP6 and
\* parsePPMP3 whatever its format tag, and through parsePPM when the tag is
\* P6 or P3.
C4_DepthRejected ==
    (/\ DepthTokenIsNot255(CallTokens)
     /\ \/ Called({"parsePPMP6", "parsePPMP3"})
        \/ (Called({"parsePPM"})
            /\ PrefixTokens(call.input)[1] \in {<<80, 54>>, <<80, 51>>}))
    => outcome.kind = "UnsupportedColorDepth"

\* parsePPMP6 rejected the depth 65535 of a buffer tagged P5.
C4_Witness ==
    /\ Called({"parsePPMP6"})
    /\ PrefixTokens(call.input)[1] = <<80, 53>>
    /\ Len(PrefixTokens(call.input)) >= 4
    /\ PrefixTokens(call.input)[4] = <<54, 53, 53, 51, 53>>
    /\ outcome.kind = "UnsupportedColorDepth"

\* C5: parsePPM on a buffer whose first token in the decoded first 20 bytes
\* is neither "P6" nor "P3" fails with UnsupportedFormat and returns no
\* image, whatever else the buffer holds.
C5_FormatRejected ==
    (Called({"parsePPM"}) /\ PrefixTokens(call.input)[1] \notin {<<80, 54>>, <<80, 51>>})
    => outcome = [kind |-> "UnsupportedFormat", image |-> NoImage]

\* parsePPM rejected a buffer that starts with white space (an empty first
\* token) and whose depth token is not "255".
C5_Witness ==
    /\ Called({"parsePPM"})
    /\ PrefixTokens(call.input)[1] = <<>>
    /\ Len(PrefixTokens(call.input)) >= 4
    /\ PrefixTokens(call.input)[4] = <<54, 53, 53, 51, 53>>
    /\ outcome.kind = "UnsupportedFormat"

\* A buffer without its last byte; a text without its last token and the
\* white space before it.
IsBlankByte(b) == b \in {9, 10, 11, 12, 13, 32}

RECURSIVE StripTrailing(_, _)
StripTrailing(s, blank) ==
    IF Len(s) > 0 /\ (IsBlankByte(s[Len(s)]) <=> blank)
    THEN StripTrailing(SubSeq(s, 1, Len(s) - 1), blank)
    ELSE s

DropLastByte(s) == SubSeq(s, 1, Len(s) - 1)
DropLastToken(s) == StripTrailing(StripTrailing(s, FALSE), TRUE)

\* C6: a buffer that decodes to an image, with the last element of its
\* payload removed (the last byte for P6, the last value token for P3),
\* fails with PixelDataSizeMismatch through the same entry point.
C6_TruncationDetected ==
    (outcome.kind = "image" /\ outcome.image.pixelData.len > 0)
    => Parse(call.entry,
             IF outcome.image.format = "P6" THEN DropLastByte(call.input)
             ELSE DropLastToken(call.input)).kind = "PixelDataSizeMismatch"

\* C7: every image a decode call returns has width >= 1 and height >= 1.
C7_PositiveDimensions ==
    outcome.kind = "image" => (outcome.image.width >= 1 /\ outcome.image.height >= 1)

\* The elements of the image the caller keeps.
HeldElements == Elements(held.image.pixelData, data)

Triple(image, x, y) ==
    {PixelIndex(image, x, y), PixelIndex(image, x, y) + 1, PixelIndex(image, x, y) + 2}

InRange(image) == (0..(image.width - 1)) \X (0..(image.height - 1))

\* C9: for the image the caller keeps and 0 <= x < width, 0 <= y < height,
\* getPixel(x, y) returned the elements k, k+1, k+2 of pixelData with
\* k = (y*width + x)*3; the three lie inside pixelData; and distinct (x, y)
\* in range read disjoint triples.
C9_PixelAddressing ==
    held.has =>
      /\ \A p \in InRange(held.image) :
            /\ Triple(held.image, p[1], p[2]) \subseteq 0..(Len(HeldElements) - 1)
            /\ \A q \in InRange(held.image) :
                  p # q => Triple(held.image, p[1], p[2])
                           \cap Triple(held.image, q[1], q[2]) = {}
      /\ (pixel.read /\ <<pixel.x, pixel.y>> \in InRange(held.image))
         => LET k == (pixel.y * held.image.width + pixel.x) * 3
            IN /\ pixel.r = HeldElements[k + 1]
               /\ pixel.g = HeldElements[k + 2]
               /\ pixel.b = HeldElements[k + 3]

\* The last pixel of the second row of an image two pixels high was read.
C9_Witness ==
    /\ held.has
    /\ held.image.height >= 2
    /\ pixel.read
    /\ pixel.x = held.image.width - 1
    /\ pixel.y = 1
    /\ pixel.r # pixel.g

\* The value tokens of a text: the fifth token onward.
ValueTokensOf(input) == Slice(TextTokens(input), 4)

\* A token that is a decimal integer: an optional sign, then digits only.
IsDecimalInteger(token) ==
    LET p == IF Len(token) >= 1 /\ token[1] \in {43, 45} THEN 2 ELSE 1
    IN p <= Len(token) /\ \A i \in p..Len(token) : token[i] \in 48..57

RECURSIVE DecimalValue(_, _)
DecimalValue(token, n) ==
    IF n = 0 \/ token[n] \in {43, 45} THEN 0
    ELSE DecimalValue(token, n - 1) * 10 + (token[n] - 48)

IntegerValue(token) ==
    (IF token[1] = 45 THEN -1 ELSE 1) * DecimalValue(token, Len(token))

\* A token Number() turns into NaN.
NotNumeric(token) == ToNumber(token) = NaN

====
